---- MODULE Spec2Model ----
(***************************************************************************)
(* Model of the three numeric transforms of reda's FZJ EIT importer:       *)
(*   compute_quadrupoles       (importers/eit_fzj.py)                      *)
(*   apply_correction_factors  (importers/eit_fzj.py)                      *)
(*   fix_sign_with_K           (utils/fix_sign_with_K.py)                  *)
(*                                                                         *)
(* A table (pandas.DataFrame) is a record [kind, cols, rows]: the set of   *)
(* column names and the sequence of rows.  A row is a record that has a    *)
(* field for every column the model knows; the field of a column that is   *)
(* not in cols holds a filler and is never read.                           *)
(*                                                                         *)
(* Numbers.  A complex number is a pair <<re, im>> of integers.            *)
(* In compute_quadrupoles r = sign(Re Zt) * |Zt| is irrational in general; *)
(* the quadrupole table built there stores in r (and Vmn) the signed       *)
(* square sign(x) * x^2 of the value x.  x |-> sign(x) * x^2 is a          *)
(* bijection of the reals that preserves order, sign, negation and         *)
(* products, so it is exact for everything the code does with r and Vmn.   *)
(* An angle atan2(im, re) * 1e3 is stored as the primitive integer vector  *)
(* pointing in the direction of <<re, im>>: two points have the same atan2 *)
(* exactly when they have the same primitive direction.                    *)
(***************************************************************************)
EXTENDS Integers, Sequences, FiniteSets, TLC

VARIABLES
    call,             \* the function the caller invokes in this run
    df_emd,           \* compute_quadrupoles: the tripole (3P) table
    config_file,      \* compute_quadrupoles: the Nx4 configuration array
    df,               \* the caller's quadrupole table (dataframe / df)
    correction_file,  \* apply_correction_factors: one source or a list
    ret,              \* the table returned by the last call
    corr_data,        \* the correction table returned by the last call
    exc,              \* the exception the last call raised, or "none"
    embedded,         \* TRUE once IPython.embed() has been entered
    printed,          \* the group key written by print(key), or <<>>
    df_before,        \* the caller's table when the last call started
    first_ret,        \* what the first call of fix_sign_with_K returned
    ncalls            \* number of calls made so far

vars == <<call, df_emd, config_file, df, correction_file, ret, corr_data,
          exc, embedded, printed, df_before, first_ret, ncalls>>

(***************************************************************************)
(* Bounds of the model                                                     *)
(***************************************************************************)
MaxTripoles == 4
MaxConfigs == 2
MaxRows == 2
MaxCorrRows == 2

(***************************************************************************)
(* Arithmetic helpers                                                      *)
(***************************************************************************)
Abs(x) == IF x < 0 THEN -x ELSE x

\* np.sign
Sign(x) == IF x > 0 THEN 1 ELSE IF x < 0 THEN -1 ELSE 0

\* np.min((Ar, Br)) / np.max((Ar, Br))
Min2(x, y) == IF x <= y THEN x ELSE y

Max2(x, y) == IF x >= y THEN x ELSE y

RECURSIVE Gcd(_, _)
Gcd(x, y) == IF y = 0 THEN x ELSE Gcd(y, x % y)

Re(z) == z[1]

Im(z) == z[2]

CSub(z, w) == <<z[1] - w[1], z[2] - w[2]>>

\* complex * real
CScale(z, f) == <<z[1] * f, z[2] * f>>

\* np.arctan2(im, re) * 1e3, as the primitive direction of <<re, im>>;
\* arctan2(0, 0) = 0 = arctan2(0, 1)
Arctan2(im, re) ==
    IF re = 0 /\ im = 0 THEN <<1, 0>>
    ELSE LET g == Gcd(Abs(re), Abs(im)) IN <<re \div g, im \div g>>

\* pd.DataFrame() and "nothing was returned"
NoTable == [kind |-> "None", cols |-> {}, rows |-> <<>>]

EmptyFrame == [kind |-> "DataFrame", cols |-> {}, rows |-> <<>>]

Frame(cols, rows) == [kind |-> "DataFrame", cols |-> cols, rows |-> rows]

\* all sequences without repetition over S of length lo..hi
InjSeqs(S, lo, hi) ==
    {s \in UNION {[1..n -> S] : n \in lo..hi} :
        \A i, j \in DOMAIN s : i # j => s[i] # s[j]}

Seqs(S, lo, hi) == UNION {[1..n -> S] : n \in lo..hi}

(***************************************************************************)
(* compute_quadrupoles                                                     *)
(***************************************************************************)
\* columns copied from the M-side rows
keep_cols == {"datetime", "frequency", "a", "b", "Is", "Iab"}

\* df_emd.query('A=={0} and B=={1} and P=={2}')
Query(t, A, B, P) ==
    SelectSeq(t, LAMBDA row : row.A = A /\ row.B = B /\ row.P = P)

\* if query_M.size == 0 or query_N.size == 0: continue
SkipConfig_And(query_M, query_N) == Len(query_M) = 0 /\ Len(query_N) = 0

SkipConfig(query_M, query_N) == Len(query_M) = 0 \/ Len(query_N) = 0

\* df4: keep_cols of query_M, Zt = query_M.values - query_N.values, paired
\* by position, m and n from the p column of the two selections
Df4(query_M, query_N) ==
    [i \in 1..Len(query_M) |->
        [datetime |-> query_M[i].datetime,
         frequency |-> query_M[i].frequency,
         a |-> query_M[i].a,
         b |-> query_M[i].b,
         Is |-> query_M[i].Is,
         Iab |-> query_M[i].Iab,
         Zt |-> CSub(query_M[i].Zt, query_N[i].Zt),
         m |-> query_M[i].p,
         n |-> query_N[i].p]]

\* the loop over the configurations; a selection pair of different
\* lengths makes the column assignment raise ValueError
RECURSIVE QuadpoleList(_, _, _)
QuadpoleList(t, configs, i) ==
    IF i > Len(configs) THEN [exc |-> "none", rows |-> <<>>]
    ELSE LET A == Min2(configs[i][1], configs[i][2])
             B == Max2(configs[i][1], configs[i][2])
             query_M == Query(t, A, B, configs[i][3])
             query_N == Query(t, A, B, configs[i][4])
         IN  IF SkipConfig(query_M, query_N)
                 THEN QuadpoleList(t, configs, i + 1)
             ELSE IF Len(query_M) # Len(query_N)
                 THEN [exc |-> "ValueError", rows |-> <<>>]
             ELSE LET rest == QuadpoleList(t, configs, i + 1)
                  IN  IF rest.exc # "none" THEN rest
                      ELSE [exc |-> "none",
                            rows |-> Df4(query_M, query_N) \o rest.rows]

\* Rsign = np.sign(dfn['Zt'].real)
Rsign_Complex(Zt) == IF Re(Zt) # 0 THEN Sign(Re(Zt)) ELSE Sign(Im(Zt))

Rsign(Zt) == Sign(Re(Zt))

\* |Zt|^2
AbsSq(Zt) == Re(Zt) * Re(Zt) + Im(Zt) * Im(Zt)

\* dfn['r'], dfn['Vmn'], dfn['rpha'] (r and Vmn as signed squares)
Derived(row) ==
    LET r == Rsign(row.Zt) * AbsSq(row.Zt)
    IN  [datetime |-> row.datetime, frequency |-> row.frequency,
         a |-> row.a, b |-> row.b, Is |-> row.Is, Iab |-> row.Iab,
         Zt |-> row.Zt, m |-> row.m, n |-> row.n,
         r |-> r,
         Vmn |-> r * row.Iab * Abs(row.Iab),
         rpha |-> Arctan2(Im(row.Zt), Re(row.Zt))]

quad_cols == keep_cols \cup {"Zt", "m", "n", "r", "Vmn", "rpha"}

\* the value of compute_quadrupoles(df_emd, config_file): [exc, ret]
compute_quadrupoles(t, configs) ==
    LET quadpole_list == QuadpoleList(t, configs, 1)
    IN  IF quadpole_list.exc # "none"
            THEN [exc |-> quadpole_list.exc, ret |-> NoTable]
        ELSE IF Len(quadpole_list.rows) > 0
            THEN [exc |-> "none",
                  ret |-> Frame(quad_cols,
                                [i \in 1..Len(quadpole_list.rows) |->
                                    Derived(quadpole_list.rows[i])])]
        ELSE [exc |-> "none", ret |-> EmptyFrame]

\* the tripole rows the instrument can deliver: current pair (1, 2),
\* potential electrode P, sample s (datetime s, frequency s)
TripoleKeys == {<<3, 1>>, <<4, 1>>, <<5, 1>>, <<3, 2>>, <<4, 2>>}

ZtBase(P) == CASE P = 3 -> <<4, 4>> [] P = 4 -> <<1, 0>> [] OTHER -> <<4, -4>>

TripoleRow(key) ==
    [A |-> 1, B |-> 2, P |-> key[1],
     datetime |-> key[2], frequency |-> key[2],
     Zt |-> CScale(ZtBase(key[1]), key[2]),
     a |-> 1, b |-> 2, p |-> key[1],
     Is |-> 10 * key[1] + key[2], Iab |-> key[2]]

TripoleTables ==
    {[i \in DOMAIN s |-> TripoleRow(s[i])] :
        s \in InjSeqs(TripoleKeys, 0, MaxTripoles)}

ConfigTuples ==
    {<<ab[1], ab[2], M, N>> :
        ab \in {<<1, 2>>, <<2, 1>>}, M \in {3, 4, 5}, N \in {3, 4, 5}}
    \ {c \in {1, 2} \X {1, 2} \X {3, 4, 5} \X {3, 4, 5} : c[3] = c[4]}

ConfigLists == Seqs(ConfigTuples, 1, MaxConfigs)

InitQuad ==
    /\ call = "compute_quadrupoles"
    /\ df_emd \in TripoleTables
    /\ config_file \in ConfigLists
    /\ df = EmptyFrame
    /\ correction_file = [kind |-> "single", sources |-> <<>>]

ComputeQuadrupoles ==
    /\ call = "compute_quadrupoles"
    /\ ncalls = 0
    /\ LET res == compute_quadrupoles(df_emd, config_file)
       IN  /\ exc' = res.exc
           /\ ret' = res.ret
    /\ ncalls' = ncalls + 1
    /\ df_before' = df
    /\ UNCHANGED <<call, df_emd, config_file, df, correction_file,
                   corr_data, embedded, printed, first_ret>>

(***************************************************************************)
(* Quadrupole tables handed to apply_correction_factors / fix_sign_with_K  *)
(***************************************************************************)
AllCols == {"a", "b", "m", "n", "frequency", "K", "r", "Vmn", "Zt",
            "rho_a", "rpha"}

\* a row of a table with the columns cols; Iab = 3, Im(Zt) = 1
QuadRow(key, frequency, K, r, cols) ==
    [a |-> key[1], b |-> key[2], m |-> key[3], n |-> key[4],
     frequency |-> IF "frequency" \in cols THEN frequency ELSE 0,
     K |-> IF "K" \in cols THEN K ELSE 0,
     r |-> IF "r" \in cols THEN r ELSE 0,
     Vmn |-> IF "Vmn" \in cols THEN 3 * r ELSE 0,
     Zt |-> IF "Zt" \in cols THEN <<r, 1>> ELSE <<0, 0>>,
     rho_a |-> IF "rho_a" \in cols THEN r * K ELSE 0,
     rpha |-> IF "rpha" \in cols THEN Arctan2(1, r) ELSE <<1, 0>>]

(***************************************************************************)
(* fix_sign_with_K                                                         *)
(***************************************************************************)
\* if 'K' not in dataframe or 'r' not in dataframe: raise
RequiredMissing(cols) == "K" \notin cols \/ "r" \notin cols

\* indices_negative = (dataframe['K'] < 0) & (dataframe['r'] < 0)
IndicesNegative_Or(row) == row.K < 0 \/ row.r < 0

IndicesNegative(row) == row.K < 0 /\ row.r < 0

\* indices_switched_ab = indices_negative & (dataframe['a'] > dataframe['b'])
IndicesSwitchedAb(row) == IndicesNegative(row) /\ row.a > row.b

\* indices_switched_mn = indices_negative & (dataframe['a'] < dataframe['b'])
IndicesSwitchedMn_Le(row) == IndicesNegative(row) /\ row.a <= row.b

IndicesSwitchedMn(row) == IndicesNegative(row) /\ row.a < row.b

\* lines 39-61 on one row: the three masks are those of the row on entry
FixSignRow(row, cols) ==
    LET neg == IndicesNegative(row)
        ab == IndicesSwitchedAb(row)
        mn == IndicesSwitchedMn(row)
        K == IF neg THEN -row.K ELSE row.K
        r == IF neg THEN -row.r ELSE row.r
    IN  [row EXCEPT
            !.K = K,
            !.r = r,
            !.a = IF ab THEN row.b ELSE row.a,
            !.b = IF ab THEN row.a ELSE row.b,
            !.m = IF mn THEN row.n ELSE row.m,
            !.n = IF mn THEN row.m ELSE row.n,
            !.Vmn = IF "Vmn" \in cols /\ neg THEN -row.Vmn ELSE row.Vmn,
            !.Zt = IF "Zt" \in cols /\ neg THEN CScale(row.Zt, -1)
                   ELSE row.Zt,
            !.rho_a = IF "rho_a" \in cols THEN r * K ELSE row.rho_a]

\* lines 64-68 on one row
RecomputePhase(row) == [row EXCEPT !.rpha = Arctan2(Im(row.Zt), Re(row.Zt))]

\* fix_sign_with_K(dataframe): [exc, ret, dataframe]; the table is changed
\* in place and the same object is returned.  dataframe['Zt'] raises
\* KeyError when rpha is a column and Zt is not.
fix_sign_with_K(dataframe) ==
    IF RequiredMissing(dataframe.cols)
        THEN [exc |-> "Exception: K and r columns required!",
              ret |-> NoTable, dataframe |-> dataframe]
    ELSE LET fixed == [dataframe EXCEPT !.rows =
                          [i \in 1..Len(dataframe.rows) |->
                              FixSignRow(dataframe.rows[i], dataframe.cols)]]
         IN  IF "rpha" \notin dataframe.cols
                 THEN [exc |-> "none", ret |-> fixed, dataframe |-> fixed]
             ELSE IF "Zt" \notin dataframe.cols
                 THEN [exc |-> "KeyError", ret |-> NoTable,
                       dataframe |-> fixed]
             ELSE LET out == [fixed EXCEPT !.rows =
                                 [i \in 1..Len(fixed.rows) |->
                                     RecomputePhase(fixed.rows[i])]]
                  IN  [exc |-> "none", ret |-> out, dataframe |-> out]

SignKeys == {<<1, 2, 3, 4>>, <<2, 1, 3, 4>>, <<1, 1, 3, 4>>}

SignColSets ==
    {AllCols, AllCols \ {"K"}, AllCols \ {"r"}, AllCols \ {"rho_a"},
     AllCols \ {"Zt"}, AllCols \ {"Vmn", "Zt", "rpha"},
     {"a", "b", "m", "n", "K", "r"}}

SignRows(cols) ==
    {QuadRow(key, 1, K, r, cols) :
        key \in SignKeys, K \in {-20, 0, 20}, r \in {-10, 0, 10}}

InitSign ==
    /\ call = "fix_sign_with_K"
    /\ df_emd = <<>>
    /\ config_file = <<>>
    /\ \E cols \in SignColSets :
        \E rows \in Seqs(SignRows(cols), 0, MaxRows) : df = Frame(cols, rows)
    /\ correction_file = [kind |-> "single", sources |-> <<>>]

\* df = fix_sign_with_K(df), at most twice in a row
FixSignWithK ==
    /\ call = "fix_sign_with_K"
    /\ ncalls < 2
    /\ exc = "none"
    /\ LET res == fix_sign_with_K(df)
       IN  /\ exc' = res.exc
           /\ ret' = res.ret
           /\ df' = res.dataframe
           /\ first_ret' = IF ncalls = 0 THEN res.ret ELSE first_ret
    /\ ncalls' = ncalls + 1
    /\ df_before' = df
    /\ UNCHANGED <<call, df_emd, config_file, correction_file, corr_data,
                   embedded, printed>>

(***************************************************************************)
(* apply_correction_factors                                                *)
(***************************************************************************)
\* the base of the packed 3-column encoding (1e4)
PackBase == 10000

\* np.sort of a pair
SortPair(x, y) == <<Min2(x, y), Max2(x, y)>>

\* lines 184-188: one packed row <<pair1, pair2, factor>> decoded
DecodeLegacy(raw) ==
    <<raw[1] \div PackBase, raw[1] % PackBase,
      raw[2] \div PackBase, raw[2] % PackBase, raw[3]>>

\* lines 194-195 on one row of corr_data
SortEntry(e) ==
    <<Min2(e[1], e[2]), Max2(e[1], e[2]),
      Min2(e[3], e[4]), Max2(e[3], e[4]), e[5]>>

\* lines 176-195: [exc, corr_data].  A list of sources leaves corr_data
\* unbound (the decoding is nested in the else branch); np.loadtxt yields a
\* 1-D array for a source of fewer than two rows, so shape[1] fails.
LoadCorrData(cf) ==
    IF cf.kind = "list"
        THEN IF \E i, j \in DOMAIN cf.sources :
                    cf.sources[i].ncols # cf.sources[j].ncols
                 THEN [exc |-> "ValueError", corr_data |-> <<>>]
             ELSE [exc |-> "UnboundLocalError", corr_data |-> <<>>]
    ELSE LET corr_data_raw == cf.sources[1]
         IN  IF Len(corr_data_raw.rows) < 2
                 THEN [exc |-> "IndexError", corr_data |-> <<>>]
             ELSE IF corr_data_raw.ncols = 3
                 THEN [exc |-> "none",
                       corr_data |->
                           [i \in 1..Len(corr_data_raw.rows) |->
                               SortEntry(DecodeLegacy(corr_data_raw.rows[i]))]]
             ELSE IF corr_data_raw.ncols = 5
                 THEN [exc |-> "none",
                       corr_data |->
                           [i \in 1..Len(corr_data_raw.rows) |->
                               SortEntry(corr_data_raw.rows[i])]]
             ELSE [exc |-> "Exception: error", corr_data |-> <<>>]

\* if 'frequency' not in df.columns: raise
FrequencyMissing_Omitted(cols) == FALSE

FrequencyMissing(cols) == "frequency" \notin cols

\* the group key of a row: df.groupby(['a', 'b', 'm', 'n'])
GroupKey(row) == <<row.a, row.b, row.m, row.n>>

\* item_norm = np.hstack((np.sort(key[0:2]), np.sort(key[2:4])))
ItemNorm_CurrentOnly(key) == <<Min2(key[1], key[2]), Max2(key[1], key[2]),
                               key[3], key[4]>>

ItemNorm(key) == SortPair(key[1], key[2]) \o SortPair(key[3], key[4])

\* index = np.where(...)[0]: the matching rows of corr_data, ascending
RECURSIVE WhereFrom(_, _, _)
WhereFrom(cd, item_norm, i) ==
    IF i > Len(cd) THEN <<>>
    ELSE (IF /\ cd[i][1] = item_norm[1]
             /\ cd[i][2] = item_norm[2]
             /\ cd[i][3] = item_norm[3]
             /\ cd[i][4] = item_norm[4]
          THEN <<i>> ELSE <<>>) \o WhereFrom(cd, item_norm, i + 1)

Where(cd, key) == WhereFrom(cd, ItemNorm(key), 1)

\* item: the positions of the rows of a group, ascending
Item(rows, key) == {i \in 1..Len(rows) : GroupKey(rows[i]) = key}

\* the place of row i among the rows of its group
PlaceInGroup(rows, i) ==
    Cardinality({j \in 1..i : GroupKey(rows[j]) = GroupKey(rows[i])})

\* lines 234-237 on one row: *= factor on the present columns, corr_fac
ScaleRow(row, cols, factor, index) ==
    [a |-> row.a, b |-> row.b, m |-> row.m, n |-> row.n,
     frequency |-> row.frequency, K |-> row.K, rpha |-> row.rpha,
     r |-> IF "r" \in cols THEN row.r * factor ELSE row.r,
     Zt |-> IF "Zt" \in cols THEN CScale(row.Zt, factor) ELSE row.Zt,
     Vmn |-> IF "Vmn" \in cols THEN row.Vmn * factor ELSE row.Vmn,
     rho_a |-> IF "rho_a" \in cols THEN row.rho_a * factor ELSE row.rho_a,
     corr_fac |-> factor,
     index |-> index]

\* the group keys of the table
Groups(rows) == {GroupKey(rows[i]) : i \in 1..Len(rows)}

\* groups for which len(index) == 0
Unmatched(rows, cd) == {key \in Groups(rows) : Len(Where(cd, key)) = 0}

\* groups with several matching entries whose factor array does not have
\* the length of the group: the *= raises ValueError
Unbroadcastable(rows, cd) ==
    {key \in Groups(rows) :
        /\ Len(Where(cd, key)) > 1
        /\ Len(Where(cd, key)) # Cardinality(Item(rows, key))}

\* lines 202-238 when no group fails: df.reset_index() is a new table with
\* the old index as a column; factor = corr_data[index, 4] is applied
\* element by element to the rows of the group
ScaledFrame(table, cd) ==
    Frame(table.cols \cup {"index"}
              \cup (IF Len(table.rows) > 0 THEN {"corr_fac"} ELSE {}),
          [i \in 1..Len(table.rows) |->
              LET index == Where(cd, GroupKey(table.rows[i]))
                  factor == IF Len(index) = 1 THEN cd[index[1]][5]
                            ELSE cd[index[PlaceInGroup(table.rows, i)]][5]
              IN  ScaleRow(table.rows[i], table.cols, factor, i - 1)])

CorrKeys == {<<1, 2, 3, 4>>, <<2, 1, 4, 3>>, <<1, 2, 4, 3>>, <<1, 2, 3, 5>>}

CorrColSets ==
    {AllCols, AllCols \ {"frequency"}, AllCols \ {"K", "rho_a"},
     AllCols \ {"Vmn", "Zt", "rpha"}}

CorrRows(cols) ==
    {QuadRow(key, 1, 2, r, cols) : key \in CorrKeys, r \in {-1, 2}}

\* correction entries <<A, B, M, N, factor>> as written in a 5-column file
Entries == {<<1, 2, 3, 4, 2>>, <<2, 1, 4, 3, 3>>, <<1, 2, 3, 5, 0>>,
            <<2, 1, 5, 3, -1>>}

Packed(e) == <<e[1] * PackBase + e[2], e[3] * PackBase + e[4], e[5]>>

Truncated(e) == <<e[1], e[2], e[3], e[5]>>

Sources(lo, hi) ==
    {[ncols |-> 5, rows |-> s] : s \in Seqs(Entries, lo, hi)}
    \cup {[ncols |-> 3, rows |-> [i \in DOMAIN s |-> Packed(s[i])]] :
            s \in Seqs(Entries, lo, hi)}
    \cup {[ncols |-> 4, rows |-> [i \in DOMAIN s |-> Truncated(s[i])]] :
            s \in Seqs(Entries, lo, hi)}

CorrectionFiles ==
    {[kind |-> "single", sources |-> <<s>>] : s \in Sources(1, MaxCorrRows)}
    \cup {[kind |-> "list", sources |-> <<s>>] :
            s \in Sources(1, MaxCorrRows)}
    \cup {[kind |-> "list", sources |-> <<s, t>>] :
            s \in {x \in Sources(1, 1) : x.ncols # 4},
            t \in {x \in Sources(1, 1) : x.ncols # 4}}

InitCorr ==
    /\ call = "apply_correction_factors"
    /\ df_emd = <<>>
    /\ config_file = <<>>
    /\ \E cols \in CorrColSets :
        \E rows \in Seqs(CorrRows(cols), 0, MaxRows) : df = Frame(cols, rows)
    /\ correction_file \in CorrectionFiles

\* df, corr_data = apply_correction_factors(df, correction_file).  The
\* groups are visited in the order of a dict, so the first failing group
\* is any of the failing ones.  The caller's table is never written: the
\* loop works on the copy made by reset_index().
ApplyCorrectionFactors ==
    /\ call = "apply_correction_factors"
    /\ ncalls = 0
    /\ LET loaded == LoadCorrData(correction_file)
           failing == Unmatched(df.rows, loaded.corr_data)
                          \cup Unbroadcastable(df.rows, loaded.corr_data)
       IN  IF loaded.exc # "none"
               THEN /\ exc' = loaded.exc
                    /\ ret' = NoTable
                    /\ UNCHANGED <<corr_data, embedded, printed>>
           ELSE IF FrequencyMissing(df.cols)
               THEN /\ exc' = "Exception: No frequency data found"
                    /\ ret' = NoTable
                    /\ UNCHANGED <<corr_data, embedded, printed>>
           ELSE IF failing # {}
               THEN \E key \in failing :
                        /\ ret' = NoTable
                        /\ UNCHANGED corr_data
                        /\ IF key \in Unmatched(df.rows, loaded.corr_data)
                               THEN /\ printed' = key
                                    /\ embedded' = TRUE
                                    /\ exc' = "Exception: No correction factor found"
                               ELSE /\ exc' = "ValueError"
                                    /\ UNCHANGED <<embedded, printed>>
           ELSE /\ exc' = "none"
                /\ ret' = ScaledFrame(df, loaded.corr_data)
                /\ corr_data' = loaded.corr_data
                /\ UNCHANGED <<embedded, printed>>
    /\ ncalls' = ncalls + 1
    /\ df_before' = df
    /\ UNCHANGED <<call, df_emd, config_file, df, correction_file, first_ret>>

Init ==
    /\ (InitQuad \/ InitSign \/ InitCorr)
    /\ ret = NoTable
    /\ corr_data = <<>>
    /\ exc = "none"
    /\ embedded = FALSE
    /\ printed = <<>>
    /\ df_before = df
    /\ first_ret = NoTable
    /\ ncalls = 0

Next == ComputeQuadrupoles \/ ApplyCorrectionFactors \/ FixSignWithK

Spec == Init /\ [][Next]_vars

(***************************************************************************)
(* Properties                                                              *)
(***************************************************************************)
QuadDone == call = "compute_quadrupoles" /\ ncalls = 1

ApplyDone == call = "apply_correction_factors" /\ ncalls = 1

SignDone == call = "fix_sign_with_K" /\ ncalls >= 1

\* the tripole rows a configuration c selects for potential electrode P
Side(c, P) ==
    {i \in DOMAIN df_emd :
        /\ df_emd[i].A = (IF c[1] <= c[2] THEN c[1] ELSE c[2])
        /\ df_emd[i].B = (IF c[1] <= c[2] THEN c[2] ELSE c[1])
        /\ df_emd[i].P = P}

BothSides(c) == Side(c, c[3]) # {} /\ Side(c, c[4]) # {}

NumBothSides ==
    Cardinality({i \in DOMAIN config_file : BothSides(config_file[i])})

RECURSIVE SamplesFrom(_)
SamplesFrom(i) ==
    IF i > Len(config_file) THEN 0
    ELSE (IF BothSides(config_file[i])
              THEN Cardinality(Side(config_file[i], config_file[i][3]))
              ELSE 0) + SamplesFrom(i + 1)

UnequalSides ==
    \E i \in DOMAIN config_file :
        /\ BothSides(config_file[i])
        /\ Cardinality(Side(config_file[i], config_file[i][3]))
               # Cardinality(Side(config_file[i], config_file[i][4]))

\* q is built from the tripole rows of indices iM and iN
BuiltFrom(q, iM, iN) ==
    /\ q.Zt = <<df_emd[iM].Zt[1] - df_emd[iN].Zt[1],
                df_emd[iM].Zt[2] - df_emd[iN].Zt[2]>>
    /\ q.m = df_emd[iM].p
    /\ q.n = df_emd[iN].p
    /\ q.datetime = df_emd[iM].datetime
    /\ q.frequency = df_emd[iM].frequency
    /\ q.a = df_emd[iM].a
    /\ q.b = df_emd[iM].b
    /\ q.Is = df_emd[iM].Is
    /\ q.Iab = df_emd[iM].Iab

MirrorConfigs == [i \in DOMAIN config_file |->
                     <<config_file[i][2], config_file[i][1],
                       config_file[i][3], config_file[i][4]>>]

\* C1: every row of the table fix_sign_with_K returns has K >= 0.
C1_AllKNonNegative ==
    (SignDone /\ exc = "none") =>
        \A i \in DOMAIN ret.rows : ret.rows[i].K >= 0

\* C4 as stated: the table compute_quadrupoles returns has exactly one row
\* per configuration that has both sides present.
C4_OneRowPerConfiguration ==
    (QuadDone /\ exc = "none") =>
        /\ ret.kind = "DataFrame"
        /\ Len(ret.rows) = NumBothSides

\* C4 amended: a configuration with an empty side contributes no row and
\* no error; a configuration with both sides present contributes one row
\* per M-side tripole row; the call raises ValueError and returns nothing
\* exactly when such a configuration has sides of different sizes.  With
\* one tripole row per (A, B, P) the row count is the number of
\* configurations with both sides present.
C4_RowCount ==
    QuadDone =>
        IF UnequalSides
            THEN exc = "ValueError" /\ ret = NoTable
        ELSE /\ exc = "none"
             /\ ret.kind = "DataFrame"
             /\ Len(ret.rows) = SamplesFrom(1)
             /\ (\A i, j \in DOMAIN df_emd :
                     df_emd[i].P = df_emd[j].P => i = j)
                    => Len(ret.rows) = NumBothSides

C4_Witness ==
    /\ QuadDone
    /\ exc = "none"
    /\ \E i \in DOMAIN config_file : ~BothSides(config_file[i])
    /\ \E i \in DOMAIN config_file : BothSides(config_file[i])
    /\ Len(ret.rows) = 2
    /\ NumBothSides = 1

\* C8: every emitted row is the M-side row minus the N-side row of one
\* configuration, with m, n and the kept columns as described; every
\* configuration with both sides present has such a row; the result does
\* not depend on the order of Ar, Br; the sign of r is the sign of Re(Zt)
\* and r^2 = |Zt|^2 when Re(Zt) # 0 (r is stored as its signed square).
C8_Superposition ==
    (QuadDone /\ exc = "none") =>
        /\ \A k \in DOMAIN ret.rows :
            /\ \E i \in DOMAIN config_file :
                \E iM \in Side(config_file[i], config_file[i][3]) :
                    \E iN \in Side(config_file[i], config_file[i][4]) :
                        BuiltFrom(ret.rows[k], iM, iN)
            /\ ret.rows[k].r > 0 <=> ret.rows[k].Zt[1] > 0
            /\ ret.rows[k].r < 0 <=> ret.rows[k].Zt[1] < 0
            /\ ret.rows[k].Zt[1] # 0 =>
                   Abs(ret.rows[k].r) =
                       ret.rows[k].Zt[1] * ret.rows[k].Zt[1]
                           + ret.rows[k].Zt[2] * ret.rows[k].Zt[2]
        /\ \A i \in DOMAIN config_file :
            BothSides(config_file[i]) =>
                \E k \in DOMAIN ret.rows :
                    \E iM \in Side(config_file[i], config_file[i][3]) :
                        \E iN \in Side(config_file[i], config_file[i][4]) :
                            BuiltFrom(ret.rows[k], iM, iN)
        /\ ret = compute_quadrupoles(df_emd, MirrorConfigs).ret

C8_Witness ==
    /\ QuadDone
    /\ exc = "none"
    /\ \E i \in DOMAIN config_file : config_file[i][1] > config_file[i][2]
    /\ \E k \in DOMAIN ret.rows :
        ret.rows[k].Zt[1] = 0 /\ ret.rows[k].Zt[2] > 0 /\ ret.rows[k].r = 0
    /\ \E k \in DOMAIN ret.rows :
        ret.rows[k].Zt[1] < 0 /\ ret.rows[k].Zt[2] > 0 /\ ret.rows[k].r < 0

\* C10: every emitted row subtracts an N-side row from an M-side row of
\* the same datetime and frequency, which are those of the emitted row.
C10_SamplesPaired ==
    (QuadDone /\ exc = "none") =>
        \A k \in DOMAIN ret.rows :
            \E i \in DOMAIN config_file :
                \E iM \in Side(config_file[i], config_file[i][3]) :
                    \E iN \in Side(config_file[i], config_file[i][4]) :
                        /\ BuiltFrom(ret.rows[k], iM, iN)
                        /\ df_emd[iM].datetime = df_emd[iN].datetime
                        /\ df_emd[iM].frequency = df_emd[iN].frequency

\* C6: a second run of fix_sign_with_K on its own output finds no row with
\* K < 0 and r < 0 and returns a table equal to the first output.
C6_Idempotent ==
    (call = "fix_sign_with_K" /\ ncalls = 2 /\ exc = "none") =>
        /\ \A i \in DOMAIN first_ret.rows :
            ~(first_ret.rows[i].K < 0 /\ first_ret.rows[i].r < 0)
        /\ ret = first_ret
        /\ df = first_ret

C6_Witness ==
    /\ call = "fix_sign_with_K"
    /\ ncalls = 2
    /\ exc = "none"
    /\ \E i \in DOMAIN ret.rows :
        ret.rows[i].m = 4 /\ ret.rows[i].n = 3 /\ ret.rows[i].K > 0
    /\ \E i \in DOMAIN ret.rows : ret.rows[i].K < 0

\* C7: a row with K < 0 and r < 0 has K and r negated and, by the order of
\* a and b on entry, either a and b swapped (a > b) or m and n swapped
\* (a < b) or no label changed (a = b), never both pairs; every other row
\* keeps K, r, a, b, m, n, Vmn and Zt.
C7_Relabeling ==
    (SignDone /\ exc = "none") =>
        /\ Len(ret.rows) = Len(df_before.rows)
        /\ \A i \in DOMAIN ret.rows :
            LET old == df_before.rows[i]
                new == ret.rows[i]
            IN  IF old.K < 0 /\ old.r < 0
                    THEN /\ new.K = -old.K
                         /\ new.r = -old.r
                         /\ old.a > old.b =>
                                /\ new.a = old.b /\ new.b = old.a
                                /\ new.m = old.m /\ new.n = old.n
                         /\ old.a < old.b =>
                                /\ new.m = old.n /\ new.n = old.m
                                /\ new.a = old.a /\ new.b = old.b
                         /\ old.a = old.b =>
                                /\ new.a = old.a /\ new.b = old.b
                                /\ new.m = old.m /\ new.n = old.n
                         /\ ~(new.a # old.a /\ new.m # old.m)
                ELSE /\ new.K = old.K /\ new.r = old.r
                     /\ new.a = old.a /\ new.b = old.b
                     /\ new.m = old.m /\ new.n = old.n
                     /\ new.Vmn = old.Vmn /\ new.Zt = old.Zt

C7_Witness ==
    /\ SignDone
    /\ exc = "none"
    /\ \E i \in DOMAIN ret.rows :
        /\ df_before.rows[i].a = 1 /\ df_before.rows[i].b = 2
        /\ df_before.rows[i].m = 3 /\ df_before.rows[i].n = 4
        /\ df_before.rows[i].r = -10 /\ df_before.rows[i].K = -20
        /\ ret.rows[i].K = 20 /\ ret.rows[i].r = 10
        /\ ret.rows[i].m = 4 /\ ret.rows[i].n = 3
        /\ ret.rows[i].a = 1 /\ ret.rows[i].b = 2
    /\ \E i \in DOMAIN ret.rows :
        /\ df_before.rows[i].a = 1 /\ df_before.rows[i].b = 1
        /\ df_before.rows[i].K < 0 /\ df_before.rows[i].r < 0

\* C9: a call of apply_correction_factors on a table without frequency, or
\* of fix_sign_with_K on a table without K or without r, raises, returns
\* no table and leaves the caller's table as it was.
C9_MissingPrecondition ==
    (\/ ApplyDone /\ "frequency" \notin df_before.cols
     \/ SignDone /\ ("K" \notin df_before.cols \/ "r" \notin df_before.cols))
        => /\ exc # "none"
           /\ ret = NoTable
           /\ df = df_before

C9_Witness ==
    /\ ApplyDone
    /\ "frequency" \notin df_before.cols
    /\ Len(df.rows) > 0
    /\ exc = "Exception: No frequency data found"
    /\ ret = NoTable

\* the rows of all sources of the correction file, in order
RECURSIVE ConcatRows(_, _)
ConcatRows(sources, i) ==
    IF i > Len(sources) THEN <<>>
    ELSE sources[i].rows \o ConcatRows(sources, i + 1)

\* the correction entry e is the one for the electrodes of the row
EntryFor(e, row) ==
    /\ e[1] = (IF row.a <= row.b THEN row.a ELSE row.b)
    /\ e[2] = (IF row.a <= row.b THEN row.b ELSE row.a)
    /\ e[3] = (IF row.m <= row.n THEN row.m ELSE row.n)
    /\ e[4] = (IF row.m <= row.n THEN row.n ELSE row.m)

\* the call got past the loading and the frequency check
Applicable ==
    /\ ApplyDone
    /\ LoadCorrData(correction_file).exc = "none"
    /\ "frequency" \in df.cols

NumEntriesFor(cd, row) ==
    Cardinality({j \in DOMAIN cd : EntryFor(cd[j], row)})

\* y / f = x in real arithmetic
Quotient(y, f, x) == f # 0 /\ x * f = y

\* the columns apply_correction_factors does not scale
OthersUnchanged(old, new) ==
    /\ new.a = old.a /\ new.b = old.b /\ new.m = old.m /\ new.n = old.n
    /\ new.frequency = old.frequency /\ new.K = old.K
    /\ new.rpha = old.rpha

ScaledBy(old, new, f, cols) ==
    /\ "r" \in cols => new.r = f * old.r
    /\ "Zt" \in cols => new.Zt = <<f * old.Zt[1], f * old.Zt[2]>>
    /\ "Vmn" \in cols => new.Vmn = f * old.Vmn
    /\ "rho_a" \in cols => new.rho_a = f * old.rho_a
    /\ "r" \notin cols => new.r = old.r
    /\ "Zt" \notin cols => new.Zt = old.Zt
    /\ "Vmn" \notin cols => new.Vmn = old.Vmn
    /\ "rho_a" \notin cols => new.rho_a = old.rho_a

DividesBack(old, new, cols) ==
    /\ "r" \in cols => Quotient(new.r, new.corr_fac, old.r)
    /\ "Zt" \in cols =>
           /\ Quotient(new.Zt[1], new.corr_fac, old.Zt[1])
           /\ Quotient(new.Zt[2], new.corr_fac, old.Zt[2])
    /\ "Vmn" \in cols => Quotient(new.Vmn, new.corr_fac, old.Vmn)
    /\ "rho_a" \in cols => Quotient(new.rho_a, new.corr_fac, old.rho_a)

\* C2: a group without correction entry ends the call in an error, with
\* no interactive session, no returned table and the caller's table as it
\* was.
C2_UnmatchedIsCleanError ==
    (/\ Applicable
     /\ \E i \in DOMAIN df_before.rows :
            NumEntriesFor(LoadCorrData(correction_file).corr_data,
                          df_before.rows[i]) = 0)
        => /\ exc # "none"
           /\ ~embedded
           /\ ret = NoTable
           /\ df = df_before

\* C3: a list of correction sources gives what the single source with the
\* concatenated rows gives: MalformedCorrectionFile for a column count
\* other than 3 or 5, else the scaled table and the normalized correction
\* table.
C3_ListLikeSingle ==
    (/\ ApplyDone
     /\ correction_file.kind = "list"
     /\ \A i \in DOMAIN correction_file.sources :
            correction_file.sources[i].ncols
                = correction_file.sources[1].ncols)
        => LET single ==
                   [kind |-> "single",
                    sources |->
                        <<[ncols |-> correction_file.sources[1].ncols,
                           rows |-> ConcatRows(correction_file.sources, 1)]>>]
               loaded == LoadCorrData(single)
           IN  /\ loaded.exc = "Exception: error" => exc = loaded.exc
               /\ (/\ loaded.exc = "none"
                   /\ "frequency" \in df.cols
                   /\ \A i \in DOMAIN df.rows :
                          NumEntriesFor(loaded.corr_data, df.rows[i]) = 1)
                      => /\ exc = "none"
                         /\ ret = ScaledFrame(df, loaded.corr_data)
                         /\ corr_data = loaded.corr_data

\* C5 as stated: when every group has exactly one correction entry, the
\* call returns; every row of a returned table whose group has one entry
\* of factor f has its present columns among r, Zt, Vmn, rho_a multiplied
\* by f and corr_fac = f, dividing them by corr_fac gives the original
\* values, and the other columns are unchanged.
C5_ScaledAndDividesBack ==
    /\ (/\ Applicable
        /\ \A i \in DOMAIN df.rows :
               NumEntriesFor(LoadCorrData(correction_file).corr_data,
                             df.rows[i]) = 1)
           => exc = "none" /\ ret.kind = "DataFrame"
    /\ (ApplyDone /\ exc = "none") =>
           /\ Len(ret.rows) = Len(df.rows)
           /\ \A i \in DOMAIN ret.rows :
               \A j \in DOMAIN corr_data :
                   (/\ EntryFor(corr_data[j], df.rows[i])
                    /\ NumEntriesFor(corr_data, df.rows[i]) = 1)
                       => /\ ScaledBy(df.rows[i], ret.rows[i],
                                      corr_data[j][5], df.cols)
                          /\ ret.rows[i].corr_fac = corr_data[j][5]
                          /\ OthersUnchanged(df.rows[i], ret.rows[i])
                          /\ DividesBack(df.rows[i], ret.rows[i], df.cols)

\* C5 amended: as stated, with the division restoring the original values
\* when the factor is not zero.
C5_Scaled ==
    /\ (/\ Applicable
        /\ \A i \in DOMAIN df.rows :
               NumEntriesFor(LoadCorrData(correction_file).corr_data,
                             df.rows[i]) = 1)
           => exc = "none" /\ ret.kind = "DataFrame"
    /\ (ApplyDone /\ exc = "none") =>
           /\ Len(ret.rows) = Len(df.rows)
           /\ \A i \in DOMAIN ret.rows :
               \A j \in DOMAIN corr_data :
                   (/\ EntryFor(corr_data[j], df.rows[i])
                    /\ NumEntriesFor(corr_data, df.rows[i]) = 1)
                       => /\ ScaledBy(df.rows[i], ret.rows[i],
                                      corr_data[j][5], df.cols)
                          /\ ret.rows[i].corr_fac = corr_data[j][5]
                          /\ OthersUnchanged(df.rows[i], ret.rows[i])
                          /\ corr_data[j][5] # 0 =>
                                 DividesBack(df.rows[i], ret.rows[i],
                                             df.cols)

C5_Witness ==
    /\ ApplyDone
    /\ exc = "none"
    /\ correction_file.sources[1].ncols = 3
    /\ \E i \in DOMAIN ret.rows :
        /\ df.rows[i].a > df.rows[i].b
        /\ df.rows[i].m > df.rows[i].n
        /\ NumEntriesFor(corr_data, df.rows[i]) = 1
        /\ df.rows[i].r = 2
        /\ ret.rows[i].r = 6
        /\ ret.rows[i].corr_fac = 3
    /\ \E i \in DOMAIN ret.rows : ret.rows[i].corr_fac = -1

====
